---- MODULE Spec2Model ----
(***************************************************************************)
(* A model of the python-cybro client: the class-level variable registry   *)
(* of models.Device (vars, user_vars, vars_types), the structured views    *)
(* ServerInfo / PlcInfo, and the session operations of cybro.Cybro         *)
(* (update, read_var, write_var, add_var, remove_var) with their backoff   *)
(* retry decorators.  One step of the model is the code that runs between  *)
(* two suspension points of a session coroutine: a call starts and runs    *)
(* up to its first transport request, a transport attempt is answered and  *)
(* the handler runs on to its next request or to its end.                  *)
(*                                                                         *)
(* Python strings are finite sequences of symbols; concatenation is \o.    *)
(* The fixed literals of the code ("sys.", "ip_port", "c", ".") are one    *)
(* symbol each, str(nad) is the sequence of the decimal digits of nad.     *)
(***************************************************************************)
EXTENDS Integers, Sequences, FiniteSets, TLC

VARIABLES
    vars,        \* Device.vars       (class attribute): name -> Var
    user_vars,   \* Device.user_vars  (class attribute): watched names, insertion order
    vars_types,  \* Device.vars_types (class attribute): name -> VarType
    device,      \* Cybro._device: the Device held by the session, or NoDevice
    nad,         \* Cybro.nad
    pc,          \* "idle", or "wait": a transport attempt is outstanding
    call,        \* the session call in progress (or the last one)
    req,         \* the request of the outstanding transport attempt
    resp,        \* the decoded response last handed to a handler
    last,        \* how the last finished call ended
    plc,         \* the memory of a gateway that echoes writes: name -> value
    pin,         \* input of the pure function under check
    pout         \* its result

vars_all ==
    <<vars, user_vars, vars_types, device, nad, pc, call, req, resp, last, plc, pin, pout>>

-----------------------------------------------------------------------------
(* Python values *)

\* None where a string is expected (dict.get of a missing key, an empty XML element)
PyNone == <<"<None>">>

DecDigits == <<"0", "1", "2", "3", "4", "5", "6", "7", "8", "9">>

\* str(n) of a non-negative int
RECURSIVE str(_)
str(n) ==
    IF n < 10 THEN <<DecDigits[n + 1]>>
    ELSE str(n \div 10) \o <<DecDigits[(n % 10) + 1]>>

Range(s) == {s[i] : i \in DOMAIN s}

\* dict.update({k: v}) on a mapping
DictSet(d, k, v) == [x \in (DOMAIN d) \cup {k} |-> IF x = k THEN v ELSE d[x]]

\* dict.pop(k) on a mapping that holds k
DictDel(d, k) == [x \in (DOMAIN d) \ {k} |-> d[x]]

\* dict.update({k: ""}) on an insertion-ordered dict, seen as its key sequence:
\* a key already present keeps its place
KeysAdd(s, k) == IF k \in Range(s) THEN s ELSE Append(s, k)

\* dict.pop(k) on an insertion-ordered dict, seen as its key sequence
KeysDel(s, k) == SelectSeq(s, LAMBDA x : x # k)

EmptyDict == [x \in {} |-> PyNone]

-----------------------------------------------------------------------------
(* models.VarType *)

STR == 0
INT == 1
FLOAT == 2
BOOL == 3

-----------------------------------------------------------------------------
(* Decoded responses: what Cybro.request returns (response_data.get("data")). *)
(* None, or a dict with a set of keys; its "var" entry is None, one record    *)
(* or a list of records.                                                      *)

NoRec == [name |-> PyNone, value |-> PyNone, description |-> PyNone]

VarNone == [t |-> "none", rec |-> NoRec, items |-> <<>>]
VarRec(r) == [t |-> "rec", rec |-> r, items |-> <<>>]
VarList(l) == [t |-> "list", rec |-> NoRec, items |-> l]

DataNone == [t |-> "none", keys |-> {}, var |-> VarNone]
DataDict(ks, v) == [t |-> "dict", keys |-> ks, var |-> v]

\* bool(data): None and {} are falsy
Truthy(data) == data.t = "dict" /\ data.keys # {}

\* xmltodict.parse(...)["data"] of a reply that lists the records rs: no element
\* gives None, one <var> element collapses to a bare record, several give a list
Decode(rs) ==
    IF Len(rs) = 0 THEN DataNone
    ELSE IF Len(rs) = 1 THEN DataDict({"var"}, VarRec(rs[1]))
    ELSE DataDict({"var"}, VarList(rs))

Rec(n, v, d) == [name |-> n, value |-> v, description |-> d]

-----------------------------------------------------------------------------
(* models.Var *)

\* Var.from_dict(data): dict.get of each field, None for a missing one
Var_from_dict(r) == [name |-> r.name, value |-> r.value, description |-> r.description]

\* Var.from_dict applied to the wrapping {"var": ...} dict: it has none of the fields
Var_from_wrapper == [name |-> PyNone, value |-> PyNone, description |-> PyNone]

\* the digit a symbol stands for, -1 for any other symbol
DigitOf(c) == IF \E d \in 0..9 : DecDigits[d + 1] = c
              THEN CHOOSE d \in 0..9 : DecDigits[d + 1] = c
              ELSE -1

\* int(s) of a string of decimal digits
RECURSIVE ParseInt(_)
ParseInt(s) ==
    IF Len(s) = 1 THEN DigitOf(s[1])
    ELSE 10 * ParseInt(SubSeq(s, 1, Len(s) - 1)) + DigitOf(s[Len(s)])

\* Var.value_string(): the raw value
value_string(v) == [err |-> "", ret |-> [t |-> "str", s |-> v.value, i |-> 0]]

\* Var.value_int(): int(self.value); int(None) raises TypeError, a string that
\* is no decimal number ValueError
value_int(v) ==
    IF v.value = PyNone THEN [err |-> "TypeError", ret |-> [t |-> "none", s |-> <<>>, i |-> 0]]
    ELSE IF v.value = <<>> \/ \E k \in DOMAIN v.value : DigitOf(v.value[k]) = -1
    THEN [err |-> "ValueError", ret |-> [t |-> "none", s |-> <<>>, i |-> 0]]
    ELSE [err |-> "", ret |-> [t |-> "int", s |-> <<>>, i |-> ParseInt(v.value)]]

\* Var.value_bool(): self.value == "1"
value_bool(v) == [err |-> "", ret |-> [t |-> "bool", s |-> <<>>, i |-> IF v.value = <<"1">> THEN 1 ELSE 0]]

-----------------------------------------------------------------------------
(* models.ServerInfo *)

ServerFields ==
    << "scgi_port_status", "server_uptime", "scgi_request_pending",
       "scgi_request_count", "push_port_status", "push_count",
       "push_ack_errors", "push_list_count", "cache_request", "cache_valid",
       "server_version", "udp_rx_count", "udp_tx_count", "datalogger_status" >>

ServerName(f) == <<"sys.", f>>

\* the _vars dict of Cybro.update, in insertion order
ServerNames == [i \in DOMAIN ServerFields |-> ServerName(ServerFields[i])]

NoServerInfo == [f \in {} |-> PyNone]

\* ServerInfo.from_vars: variables.get(name).value of every field; .get of a
\* missing name is None, and None.value raises AttributeError
ServerInfo_from_vars(variables) ==
    IF \E i \in DOMAIN ServerFields : ServerNames[i] \notin DOMAIN variables
    THEN [err |-> "AttributeError", info |-> NoServerInfo]
    ELSE [err |-> "",
          info |-> [f \in Range(ServerFields) |-> variables[ServerName(f)].value]]

\* ServerInfo.from_dict: data[name] of every field; a missing key raises KeyError
ServerInfo_from_dict(data) ==
    IF \E i \in DOMAIN ServerFields : ServerNames[i] \notin DOMAIN data
    THEN [err |-> "KeyError", info |-> NoServerInfo]
    ELSE [err |-> "",
          info |-> [f \in Range(ServerFields) |-> data[ServerName(f)]]]

-----------------------------------------------------------------------------
(* models.PlcInfo *)

PlcFields ==
    << "ip_port", "timestamp", "plc_program_status", "response_time",
       "bytes_transferred", "comm_error_count", "alc_file" >>

\* "c" + str(nad) + "."
Controller(n) == <<"c">> \o str(n) \o <<".">>

\* "c" + str(plc_nad) + ".sys.ip_port", ...
PlcName(n, f) == Controller(n) \o <<"sys.", f>>

PlcNames(n) == [i \in DOMAIN PlcFields |-> PlcName(n, PlcFields[i])]

NoPlcInfo == [t |-> "unset", nad |-> 0, fields |-> [f \in {} |-> PyNone], plc_vars |-> EmptyDict]

\* An allocation text is a sequence of characters; "\n" ends a line.
Whitespace == {" ", "\t"}

\* the column of the type and the column of the name in a line of the text
TypCol == 37
NameCol == 43

\* the number of header lines parse_alc_file skips
AlcHeaderLines == 2

\* str.splitlines(): the lines without their ends; no line after a final "\n"
RECURSIVE splitlines(_)
splitlines(s) ==
    IF s = <<>> THEN <<>>
    ELSE IF \E i \in DOMAIN s : s[i] = "\n"
    THEN LET i == CHOOSE k \in DOMAIN s :
                      s[k] = "\n" /\ \A j \in 1..(k - 1) : s[j] # "\n"
         IN  <<SubSeq(s, 1, i - 1)>> \o splitlines(SubSeq(s, i + 1, Len(s)))
    ELSE <<s>>

\* s[a:b] for a >= 0; a negative b counts from the end
PySlice(s, a, b) ==
    LET n == Len(s)
        hi == IF b < 0 THEN n + b ELSE IF b > n THEN n ELSE b
    IN  SubSeq(s, a + 1, hi)

\* str.rstrip()
RECURSIVE rstrip(_)
rstrip(s) ==
    IF s # <<>> /\ s[Len(s)] \in Whitespace THEN rstrip(SubSeq(s, 1, Len(s) - 1))
    ELSE s

\* str.lstrip()
RECURSIVE lstrip(_)
lstrip(s) == IF s # <<>> /\ s[1] \in Whitespace THEN lstrip(Tail(s)) ELSE s

\* the characters of s before its first whitespace
RECURSIVE Token(_)
Token(s) ==
    IF s = <<>> \/ s[1] \in Whitespace THEN <<>> ELSE <<s[1]>> \o Token(Tail(s))

\* s.split(): the first of the whitespace-separated words, <<>> when s has none
FirstWord(s) == Token(lstrip(s))

\* the loop of parse_alc_file over the data lines; [0] of an empty split()
\* raises IndexError
RECURSIVE ParseAlcLines(_, _, _)
ParseAlcLines(lines, prefix, res) ==
    IF lines = <<>> THEN [err |-> "", res |-> res]
    ELSE LET line == lines[1]
             typ == rstrip(PySlice(line, TypCol, NameCol))
             name == FirstWord(PySlice(line, NameCol, -1))
         IN  IF name = <<>> THEN [err |-> "IndexError", res |-> res]
             ELSE ParseAlcLines(Tail(lines), prefix,
                                DictSet(res, prefix \o rstrip(name), typ))

\* PlcInfo.parse_alc_file: [err, info, ret]; None has no splitlines
parse_alc_file(info) ==
    IF info.fields["alc_file"] = PyNone
    THEN [err |-> "AttributeError", info |-> info, ret |-> EmptyDict]
    ELSE LET alc_lines == splitlines(info.fields["alc_file"])
             p == ParseAlcLines(SubSeq(alc_lines, AlcHeaderLines + 1, Len(alc_lines)),
                                Controller(info.nad), EmptyDict)
         IN  IF p.err # "" THEN [err |-> p.err, info |-> info, ret |-> EmptyDict]
             ELSE [err |-> "", info |-> [info EXCEPT !.plc_vars = p.res], ret |-> p.res]

\* PlcInfo.from_vars: variables.get(name, "").value of every field; "" has no
\* .value, the AttributeError is turned into CybroPlcNotFoundError
PlcInfo_from_vars(variables, plc_nad) ==
    IF \E i \in DOMAIN PlcFields : PlcNames(plc_nad)[i] \notin DOMAIN variables
    THEN [err |-> "CybroPlcNotFoundError", info |-> NoPlcInfo]
    ELSE [err |-> "",
          info |-> [t |-> "plc", nad |-> plc_nad,
                    fields |-> [f \in Range(PlcFields) |->
                                   variables[PlcName(plc_nad, f)].value],
                    plc_vars |-> EmptyDict]]

\* "c" + str(plc_nad) + "sys.ip_port", ...: the keys PlcInfo.from_dict looks up
DictName(n, f) == <<"c">> \o str(n) \o <<"sys.", f>>

\* PlcInfo.from_dict: data[key] of every field; a missing key raises KeyError
PlcInfo_from_dict(data, plc_nad) ==
    IF \E i \in DOMAIN PlcFields : DictName(plc_nad, PlcFields[i]) \notin DOMAIN data
    THEN [err |-> "KeyError", info |-> NoPlcInfo]
    ELSE [err |-> "",
          info |-> [t |-> "plc", nad |-> plc_nad,
                    fields |-> [f \in Range(PlcFields) |-> data[DictName(plc_nad, f)]],
                    plc_vars |-> EmptyDict]]

-----------------------------------------------------------------------------
(* models.Device.  The three dicts are class attributes: every Device object *)
(* reads and writes the same ones.  reg is the record of the three.          *)

Reg(v, u, t) == [vars |-> v, user_vars |-> u, vars_types |-> t]

NoDevice == [t |-> "none", info |-> PyNone, server_info |-> NoServerInfo, plc_info |-> NoPlcInfo]

\* the loop of update_from_dict over a list of records
RECURSIVE MergeServerVars(_, _)
MergeServerVars(reg, items) ==
    IF items = <<>> THEN reg
    ELSE MergeServerVars(
            [reg EXCEPT !.vars = DictSet(@, items[1].name, Var_from_dict(items[1])),
                        !.vars_types = DictSet(@, items[1].name, STR)],
            Tail(items))

\* Device.update_from_dict on a fresh object: [err, reg, dev]
update_from_dict(reg, data, plc_nad) ==
    IF data.var.t # "list"
    THEN \* iterating None, or the keys of a bare record: var["name"] on a str
         [err |-> "TypeError", reg |-> reg, dev |-> NoDevice]
    ELSE LET reg1 == MergeServerVars(reg, data.var.items)
             si == ServerInfo_from_vars(reg1.vars)
         IN  IF si.err # "" THEN [err |-> si.err, reg |-> reg1, dev |-> NoDevice]
             ELSE IF si.info["server_version"] = PyNone
             THEN [err |-> "TypeError", reg |-> reg1, dev |-> NoDevice]
             ELSE LET d0 == [t |-> "dev",
                             info |-> <<"CybrotechScgiServer v">> \o si.info["server_version"],
                             server_info |-> si.info,
                             plc_info |-> NoPlcInfo]
                  IN  IF plc_nad = 0 THEN [err |-> "", reg |-> reg1, dev |-> d0]
                      ELSE LET pi == PlcInfo_from_vars(reg1.vars, plc_nad)
                               pa == parse_alc_file(pi.info)
                           IN  IF pi.err # ""
                               THEN [err |-> pi.err, reg |-> reg1, dev |-> NoDevice]
                               ELSE IF pa.err # ""
                               THEN [err |-> pa.err, reg |-> reg1, dev |-> NoDevice]
                               ELSE [err |-> "", reg |-> reg1,
                                     dev |-> [d0 EXCEPT !.plc_info = pa.info]]

\* Device_init of a Device whose watch set is its own: it starts empty
Device_init_fresh(reg, data, plc_nad) ==
    IF data.t = "none" THEN [err |-> "TypeError", reg |-> reg, dev |-> NoDevice]
    ELSE IF "var" \notin data.keys THEN [err |-> "KeyError", reg |-> reg, dev |-> NoDevice]
    ELSE IF data.var.t = "none" THEN [err |-> "CybroError", reg |-> reg, dev |-> NoDevice]
    ELSE update_from_dict(Reg(reg.vars, <<>>, reg.vars_types), data, plc_nad)

\* Device.__init__(data, plc_nad): [err, reg, dev]
Device_init(reg, data, plc_nad) ==
    IF data.t = "none" THEN [err |-> "TypeError", reg |-> reg, dev |-> NoDevice]
    ELSE IF "var" \notin data.keys THEN [err |-> "KeyError", reg |-> reg, dev |-> NoDevice]
    ELSE IF data.var.t = "none" THEN [err |-> "CybroError", reg |-> reg, dev |-> NoDevice]
    ELSE update_from_dict(reg, data, plc_nad)

\* the loop of update_user_var_from_dict over a list of records
RECURSIVE MergeUserVars(_, _)
MergeUserVars(reg, items) ==
    IF items = <<>> THEN reg
    ELSE MergeUserVars(
            [reg EXCEPT !.vars = DictSet(@, items[1].name, Var_from_dict(items[1]))],
            Tail(items))

\* Device.update_user_var_from_dict(data): [err, reg]
\* Over a bare record the loop walks its keys "name", "value", "description":
\* "name" stores Var.from_dict of the wrapper under the record's name, and the
\* next key, "value", is indexed by "name": TypeError.
update_user_var_from_dict(reg, data) ==
    IF data.t = "none" THEN [err |-> "TypeError", reg |-> reg]
    ELSE IF "var" \notin data.keys THEN [err |-> "KeyError", reg |-> reg]
    ELSE IF data.var.t = "none" THEN [err |-> "TypeError", reg |-> reg]
    ELSE IF data.var.t = "rec"
    THEN [err |-> "TypeError",
          reg |-> [reg EXCEPT !.vars = DictSet(@, data.var.rec.name, Var_from_wrapper)]]
    ELSE [err |-> "", reg |-> MergeUserVars(reg, data.var.items)]

\* StoreVar without the update of user_vars
StoreVar_unwatched(reg, r, var_type) ==
    [vars |-> DictSet(reg.vars, r.name, Var_from_dict(r)),
     vars_types |-> DictSet(reg.vars_types, r.name, var_type),
     user_vars |-> reg.user_vars]

\* the three updates of update_var for one record
StoreVar(reg, r, var_type) ==
    [vars |-> DictSet(reg.vars, r.name, Var_from_dict(r)),
     vars_types |-> DictSet(reg.vars_types, r.name, var_type),
     user_vars |-> KeysAdd(reg.user_vars, r.name)]

RetStr(s) == [t |-> "str", s |-> s, i |-> 0]
RetInt(n) == [t |-> "int", s |-> <<>>, i |-> n]
RetNone == [t |-> "none", s |-> <<>>, i |-> 0]

\* Device.update_var(data, var_type): [err, reg, ret]
update_var(reg, data, var_type) ==
    IF data.t = "none" THEN [err |-> "TypeError", reg |-> reg, ret |-> RetNone]
    ELSE IF Cardinality(data.keys) = 1
    THEN IF "var" \notin data.keys
         THEN [err |-> "KeyError", reg |-> reg, ret |-> RetNone]
         ELSE IF data.var.t # "rec"
         THEN \* data["var"]["name"] on a list or on None
              [err |-> "TypeError", reg |-> reg, ret |-> RetNone]
         ELSE LET reg1 == StoreVar(reg, data.var.rec, var_type)
              IN  [err |-> "", reg |-> reg1,
                   ret |-> RetStr(reg1.vars[data.var.rec.name].value)]
    ELSE IF "var" \notin data.keys
    THEN [err |-> "KeyError", reg |-> reg, ret |-> RetNone]
    ELSE IF data.var.t = "none" \/ data.var.t = "rec"
    THEN \* iterating None, or the keys of a bare record
         [err |-> "TypeError", reg |-> reg, ret |-> RetNone]
    ELSE IF data.var.items = <<>>
    THEN [err |-> "", reg |-> reg, ret |-> RetStr(<<"?">>)]
    ELSE LET reg1 == StoreVar(reg, data.var.items[1], var_type)
         IN  [err |-> "", reg |-> reg1,
              ret |-> RetStr(reg1.vars[data.var.items[1].name].value)]

\* add_var on a watch list that appends the name whether or not it holds it
add_var_append(reg, name, var_type) ==
    [reg EXCEPT !.user_vars = Append(@, name),
                !.vars_types = DictSet(@, name, var_type)]

\* add_var that watches the name without recording its type
add_var_untyped(reg, name, var_type) ==
    [reg EXCEPT !.user_vars = KeysAdd(@, name)]

\* Device.add_var(name, var_type)
add_var(reg, name, var_type) ==
    [reg EXCEPT !.user_vars = KeysAdd(@, name),
                !.vars_types = DictSet(@, name, var_type)]

\* remove_var that drops the stored Var of the name as well
remove_var_purge(reg, name) ==
    IF name \notin Range(reg.user_vars) THEN [err |-> "KeyError", reg |-> reg]
    ELSE [err |-> "",
          reg |-> [vars |-> DictDel(reg.vars, name),
                   user_vars |-> KeysDel(reg.user_vars, name),
                   vars_types |-> DictDel(reg.vars_types, name)]]

\* Device.remove_var(name): dict.pop of a missing key raises KeyError
remove_var(reg, name) ==
    IF name \notin Range(reg.user_vars) THEN [err |-> "KeyError", reg |-> reg]
    ELSE IF name \notin DOMAIN reg.vars_types
    THEN [err |-> "KeyError", reg |-> [reg EXCEPT !.user_vars = KeysDel(@, name)]]
    ELSE [err |-> "",
          reg |-> [reg EXCEPT !.user_vars = KeysDel(@, name),
                              !.vars_types = DictDel(@, name)]]

-----------------------------------------------------------------------------
(* Requests and the gateway's replies *)

Desc == <<"Desc.">>

\* max_tries of the backoff decorator of Cybro.request
RequestMaxTries == 3

\* max_tries of the backoff decorators of update, read_var and write_var
CallMaxTries == 3

NoReq == [kind |-> "none", names |-> <<>>, value |-> PyNone, attempt |-> 0]

\* the _vars dict of Cybro.update: the 14 server names, then the 7 controller names
SysNames(n) == IF n # 0 THEN ServerNames \o PlcNames(n) ELSE ServerNames

SysReq(n) == [kind |-> "sys", names |-> SysNames(n), value |-> PyNone, attempt |-> 1]

\* request(data=self._device.user_vars): every watched name, in insertion order
UserReq(names) == [kind |-> "user", names |-> names, value |-> PyNone, attempt |-> 1]

\* request(data=name)
ReadReq(name) == [kind |-> "read", names |-> <<name>>, value |-> PyNone, attempt |-> 1]

\* request(data={name: value})
WriteReq(name, value) == [kind |-> "write", names |-> <<name>>, value |-> value, attempt |-> 1]

\* the records of a reply that answers every name of names with the value val[i]
Answer(names, val) == [i \in DOMAIN names |-> Rec(names[i], val[i], Desc)]

Without(s, x) == SelectSeq(s, LAMBDA y : y # x)

\* a reply to names in which every value is v
Stamped(names, v) == Answer(names, [i \in DOMAIN names |-> v])

\* What the gateway may answer to the request r, as the record sequence of its
\* reply: nothing; every requested name, the server-scope ones with one of the
\* values stamps and the others with values of vals; and, when partial, the
\* server-scope names but "sys.server_version" or but the controller's
\* "sys.ip_port"
Replies(r, vals, stamps, partial) ==
    IF r.kind = "sys"
    THEN {<<>>}
         \cup {Stamped(r.names, v) : v \in stamps}
         \cup (IF partial
               THEN {Stamped(Without(r.names, ServerName("server_version")), v) :
                        v \in stamps}
                    \cup {Stamped(Without(r.names, PlcName(nad, "ip_port")), v) :
                        v \in stamps}
               ELSE {})
    ELSE {<<>>} \cup {Answer(r.names, val) : val \in [DOMAIN r.names -> vals]}

\* the value a gateway that echoes writes holds for a name
Held(name) == IF name \in DOMAIN plc THEN plc[name] ELSE <<"0">>

\* the reply of a gateway that echoes writes and answers reads from its memory
EchoReply(r) ==
    IF r.kind = "sys" THEN Stamped(r.names, <<"3.2.6">>)
    ELSE IF r.kind = "write" THEN <<Rec(r.names[1], r.value, Desc)>>
    ELSE [i \in DOMAIN r.names |-> Rec(r.names[i], Held(r.names[i]), Desc)]

-----------------------------------------------------------------------------
(* cybro.Cybro *)

NoCall == [op |-> "none", full |-> FALSE, name |-> PyNone, value |-> PyNone,
           typ |-> STR, tries |-> 0, outer |-> 0, branch |-> "none", replies |-> 0,
           was_watched |-> FALSE]

NoLast == [st |-> "none", err |-> "", ret |-> RetNone]

\* no response was handed to the call yet
NoResp == [t |-> "pending", keys |-> {}, var |-> VarNone]

Ok(ret) == [st |-> "ok", err |-> "", ret |-> ret]
Raise(e) == [st |-> "raise", err |-> e, ret |-> RetNone]

reg == Reg(vars, user_vars, vars_types)

SetReg(r) ==
    /\ vars' = r.vars
    /\ user_vars' = r.user_vars
    /\ vars_types' = r.vars_types

\* the call ends: it returns or raises
Finish(result) ==
    /\ pc' = "idle"
    /\ req' = NoReq
    /\ last' = result

\* the call awaits a transport attempt
Await(r) ==
    /\ pc' = "wait"
    /\ req' = r
    /\ last' = NoLast

\* UpdateBody of an update that asks for the watched names before the
\* server-scope ones
UpdateBody_userfirst(dev, n, r, full) ==
    IF (dev = NoDevice \/ full) /\ Len(r.user_vars) = 0
    THEN [branch |-> "full", req |-> SysReq(n)]
    ELSE IF dev = NoDevice \/ full
    THEN [branch |-> "full", req |-> UserReq(r.user_vars)]
    ELSE IF Len(r.user_vars) > 0 THEN [branch |-> "user", req |-> UserReq(r.user_vars)]
    ELSE [branch |-> "user", req |-> NoReq]

\* UpdateBody of an update that asks for the watched names even when there
\* are none
UpdateBody_always(dev, n, r, full) ==
    IF dev = NoDevice \/ full THEN [branch |-> "full", req |-> SysReq(n)]
    ELSE [branch |-> "user", req |-> UserReq(r.user_vars)]

\* The body of Cybro.update up to its first request, run with device dev,
\* session address n and registry r: the request it issues, NoReq when it
\* returns without one
UpdateBody(dev, n, r, full) ==
    IF dev = NoDevice \/ full THEN [branch |-> "full", req |-> SysReq(n)]
    ELSE IF Len(r.user_vars) > 0 THEN [branch |-> "user", req |-> UserReq(r.user_vars)]
    ELSE [branch |-> "user", req |-> NoReq]

\* update(full_update, plc_nad) is called
Update(full, plc_nad) ==
    /\ pc = "idle"
    /\ LET n1 == IF (device = NoDevice \/ full) /\ plc_nad # 0 /\ nad = 0
                 THEN plc_nad ELSE nad
           b == UpdateBody(device, n1, reg, full)
       IN  /\ nad' = n1
           /\ call' = [NoCall EXCEPT !.op = "update", !.full = full, !.tries = 1,
                                     !.branch = b.branch]
           /\ IF b.req = NoReq THEN Finish(Ok(RetNone)) ELSE Await(b.req)
    /\ resp' = NoResp
    /\ UNCHANGED <<vars, user_vars, vars_types, device, plc, pin, pout>>

\* read_var(name, var_type) is called
ReadVar(name, var_type) ==
    /\ pc = "idle"
    /\ call' = [NoCall EXCEPT !.op = "read_var", !.name = name, !.typ = var_type,
                              !.tries = 1, !.was_watched = (name \in Range(user_vars))]
    /\ Await(ReadReq(name))
    /\ resp' = NoResp
    /\ UNCHANGED <<vars, user_vars, vars_types, device, nad, plc, pin, pout>>

\* read_var_int, read_var_float and read_var_bool: read_var(name, var_type)
\* under a second decorator of their own; outer counts the runs of that one
ReadVarAs(op, name, var_type) ==
    /\ pc = "idle"
    /\ call' = [NoCall EXCEPT !.op = op, !.name = name, !.typ = var_type,
                              !.tries = 1, !.outer = 1,
                              !.was_watched = (name \in Range(user_vars))]
    /\ Await(ReadReq(name))
    /\ resp' = NoResp
    /\ UNCHANGED <<vars, user_vars, vars_types, device, nad, plc, pin, pout>>

ReadVarInt(name) == ReadVarAs("read_var_int", name, INT)

ReadVarFloat(name) == ReadVarAs("read_var_float", name, FLOAT)

ReadVarBool(name) == ReadVarAs("read_var_bool", name, BOOL)

\* write_var(name, value, var_type) is called
WriteVar(name, value, var_type) ==
    /\ pc = "idle"
    /\ call' = [NoCall EXCEPT !.op = "write_var", !.name = name, !.value = value,
                              !.typ = var_type, !.tries = 1,
                              !.was_watched = (name \in Range(user_vars))]
    /\ Await(WriteReq(name, value))
    /\ resp' = NoResp
    /\ UNCHANGED <<vars, user_vars, vars_types, device, nad, plc, pin, pout>>

\* AttemptFails of a request without the backoff decorator
AttemptFails_giveup(e) ==
    /\ pc = "wait"
    /\ Finish(Raise(e))
    /\ UNCHANGED <<vars, user_vars, vars_types, device, nad, call, resp, plc, pin, pout>>

\* A transport attempt fails, Cybro.request raises e: the backoff decorator of
\* request sleeps and tries again, up to max_tries attempts; then e reaches the
\* caller (the decorators of update, read_var and write_var let it pass)
AttemptFails(e) ==
    /\ pc = "wait"
    /\ IF req.attempt < RequestMaxTries
       THEN /\ req' = [req EXCEPT !.attempt = @ + 1]
            /\ UNCHANGED <<pc, last>>
       ELSE Finish(Raise(e))
    /\ UNCHANGED <<vars, user_vars, vars_types, device, nad, call, resp, plc, pin, pout>>

\* the call, one more response handed to it
Answered == [call EXCEPT !.replies = @ + 1]

\* EmptyResponse under a decorator that allows one more run
EmptyResponse_extra ==
    IF call.tries >= CallMaxTries + 1
    THEN /\ Finish(Raise("CybroEmptyResponseError"))
         /\ call' = Answered
    ELSE IF call.op = "update"
    THEN LET b == UpdateBody(device, nad, reg, call.full)
         IN  /\ call' = [Answered EXCEPT !.tries = @ + 1, !.branch = b.branch]
             /\ IF b.req = NoReq THEN Finish(Ok(RetNone)) ELSE Await(b.req)
    ELSE /\ call' = [Answered EXCEPT !.tries = @ + 1]
         /\ Await([req EXCEPT !.attempt = 1])

\* CybroEmptyResponseError without a decorator that catches it
EmptyResponse_noretry ==
    /\ Finish(Raise("CybroEmptyResponseError"))
    /\ call' = Answered

\* EmptyResponse under decorators without max_tries
EmptyResponse_forever ==
    IF call.op = "update"
    THEN LET b == UpdateBody(device, nad, reg, call.full)
         IN  /\ call' = [Answered EXCEPT !.branch = b.branch]
             /\ IF b.req = NoReq THEN Finish(Ok(RetNone)) ELSE Await(b.req)
    ELSE /\ call' = Answered
         /\ Await([req EXCEPT !.attempt = 1])

\* CybroEmptyResponseError is raised in the body of a decorated call: the
\* decorator runs the body again, up to max_tries runs, then lets it through;
\* out of read_var it reaches the decorator of read_var_int, read_var_float or
\* read_var_bool, which calls read_var again, up to max_tries times
EmptyResponse ==
    IF call.tries >= CallMaxTries /\ (call.outer = 0 \/ call.outer >= CallMaxTries)
    THEN /\ Finish(Raise("CybroEmptyResponseError"))
         /\ call' = Answered
    ELSE IF call.tries >= CallMaxTries
    THEN /\ call' = [Answered EXCEPT !.outer = @ + 1, !.tries = 1]
         /\ Await([req EXCEPT !.attempt = 1])
    ELSE IF call.op = "update"
    THEN LET b == UpdateBody(device, nad, reg, call.full)
         IN  /\ call' = [Answered EXCEPT !.tries = @ + 1, !.branch = b.branch]
             /\ IF b.req = NoReq THEN Finish(Ok(RetNone)) ELSE Await(b.req)
    ELSE /\ call' = [Answered EXCEPT !.tries = @ + 1]
         /\ Await([req EXCEPT !.attempt = 1])

\* OnSysReply under a decorator of update that catches every error
OnSysReply_retry(data) ==
    IF ~Truthy(data)
    THEN /\ EmptyResponse
         /\ UNCHANGED <<vars, user_vars, vars_types, device>>
    ELSE LET d == Device_init(reg, data, nad)
         IN  /\ SetReg(d.reg)
             /\ IF d.err # ""
                THEN /\ IF call.tries >= CallMaxTries
                        THEN Finish(Raise(d.err)) /\ call' = Answered
                        ELSE /\ Await(SysReq(nad))
                             /\ call' = [Answered EXCEPT !.tries = @ + 1]
                     /\ UNCHANGED device
                ELSE /\ device' = d.dev
                     /\ call' = Answered
                     /\ IF Len(d.reg.user_vars) > 0
                        THEN Await(UserReq(d.reg.user_vars))
                        ELSE Finish(Ok(RetNone))

\* the full-update branch of Cybro.update after its first request
OnSysReply(data) ==
    IF ~Truthy(data)
    THEN /\ EmptyResponse
         /\ UNCHANGED <<vars, user_vars, vars_types, device>>
    ELSE LET d == Device_init(reg, data, nad)
         IN  /\ SetReg(d.reg)
             /\ IF d.err # ""
                THEN /\ Finish(Raise(d.err))
                     /\ call' = Answered
                     /\ UNCHANGED device
                ELSE /\ device' = d.dev
                     /\ call' = Answered
                     /\ IF Len(d.reg.user_vars) > 0
                        THEN Await(UserReq(d.reg.user_vars))
                        ELSE Finish(Ok(RetNone))

\* Cybro.update after the request for the watched names
OnUserReply(data) ==
    IF ~Truthy(data)
    THEN /\ EmptyResponse
         /\ UNCHANGED <<vars, user_vars, vars_types, device>>
    ELSE LET u == update_user_var_from_dict(reg, data)
         IN  /\ SetReg(u.reg)
             /\ Finish(IF u.err # "" THEN Raise(u.err) ELSE Ok(RetNone))
             /\ call' = Answered
             /\ UNCHANGED device

\* OnVarReply of a write_var that stores the value it asked for
OnVarReply_local(data) ==
    LET own == IF call.op = "write_var" /\ data.var.t = "rec"
               THEN DataDict({"var"}, VarRec([data.var.rec EXCEPT !.value = call.value]))
               ELSE data
        u == update_var(reg, own, call.typ)
    IN  /\ SetReg(u.reg)
        /\ Finish(IF u.err # "" THEN Raise(u.err) ELSE Ok(u.ret))
        /\ call' = Answered
        /\ UNCHANGED device

\* self._device.update_var(data, var_type) at the end of read_var and write_var
OnVarReply(data) ==
    IF device = NoDevice
    THEN /\ Finish(Raise("AttributeError"))
         /\ call' = Answered
         /\ UNCHANGED <<vars, user_vars, vars_types, device>>
    ELSE LET u == update_var(reg, data, call.typ)
         IN  /\ SetReg(u.reg)
             /\ Finish(IF u.err # "" THEN Raise(u.err) ELSE Ok(u.ret))
             /\ call' = Answered
             /\ UNCHANGED device

\* Cybro.read_var after its request
OnReadReply(data) ==
    IF ~Truthy(data)
    THEN /\ EmptyResponse
         /\ UNCHANGED <<vars, user_vars, vars_types, device>>
    ELSE OnVarReply(data)

\* A transport attempt is answered with the records rs: Cybro.request returns
\* the decoded data and the calling handler runs on
Reply(rs) ==
    /\ pc = "wait"
    /\ LET data == Decode(rs)
       IN  /\ resp' = data
           /\ CASE req.kind = "sys" -> OnSysReply(data)
                [] req.kind = "user" -> OnUserReply(data)
                [] req.kind = "read" -> OnReadReply(data)
                [] req.kind = "write" -> OnVarReply(data)
    /\ UNCHANGED <<nad, pin, pout>>

\* Device.add_var(name, var_type) on the Device the session returned
AddVar(name, var_type) ==
    /\ pc = "idle"
    /\ device # NoDevice
    /\ SetReg(add_var(reg, name, var_type))
    /\ call' = [NoCall EXCEPT !.op = "add_var", !.name = name, !.typ = var_type,
                              !.was_watched = (name \in Range(user_vars))]
    /\ last' = Ok(RetNone)
    /\ resp' = NoResp
    /\ UNCHANGED <<device, nad, pc, req, plc, pin, pout>>

\* Device.remove_var(name) on the Device the session returned
RemoveVar(name) ==
    /\ pc = "idle"
    /\ device # NoDevice
    /\ LET u == remove_var(reg, name)
       IN  /\ SetReg(u.reg)
           /\ last' = IF u.err # "" THEN Raise(u.err) ELSE Ok(RetNone)
    /\ call' = [NoCall EXCEPT !.op = "remove_var", !.name = name,
                              !.was_watched = (name \in Range(user_vars))]
    /\ resp' = NoResp
    /\ UNCHANGED <<device, nad, pc, req, plc, pin, pout>>

\* Cybro.add_var(name): self._device.add_var(name), None has no add_var
CybroAddVar(name) ==
    /\ pc = "idle"
    /\ IF device = NoDevice
       THEN /\ last' = Raise("AttributeError")
            /\ UNCHANGED <<vars, user_vars, vars_types>>
       ELSE /\ last' = Ok(RetNone)
            /\ SetReg(add_var(reg, name, STR))
    /\ call' = [NoCall EXCEPT !.op = "Cybro.add_var", !.name = name,
                              !.was_watched = (name \in Range(user_vars))]
    /\ resp' = NoResp
    /\ UNCHANGED <<device, nad, pc, req, plc, pin, pout>>

\* Cybro.remove_var(name): self._device.remove_var(name)
CybroRemoveVar(name) ==
    /\ pc = "idle"
    /\ IF device = NoDevice
       THEN /\ last' = Raise("AttributeError")
            /\ UNCHANGED <<vars, user_vars, vars_types>>
       ELSE LET u == remove_var(reg, name)
            IN  /\ SetReg(u.reg)
                /\ last' = IF u.err # "" THEN Raise(u.err) ELSE Ok(RetNone)
    /\ call' = [NoCall EXCEPT !.op = "Cybro.remove_var", !.name = name,
                              !.was_watched = (name \in Range(user_vars))]
    /\ resp' = NoResp
    /\ UNCHANGED <<device, nad, pc, req, plc, pin, pout>>

-----------------------------------------------------------------------------
(* The request chunker, cybro._get_chunk(names, size) *)

\* the configured maximum number of names in one request
MaxBatchSize == 2

Min(a, b) == IF a < b THEN a ELSE b

\* get_chunk that yields the full groups only
get_chunk_full(names, size) ==
    [i \in 1..(Len(names) \div size) |-> SubSeq(names, (i - 1) * size + 1, i * size)]

\* consecutive groups of at most size names, in order; none for no names
get_chunk(names, size) ==
    [i \in 1..((Len(names) + size - 1) \div size) |->
        SubSeq(names, (i - 1) * size + 1, Min(i * size, Len(names)))]

-----------------------------------------------------------------------------
(* Sessions *)

NoPure == [f |-> "none"]

\* a session right after Cybro(host, port, nad), in a fresh process
Init ==
    /\ vars = EmptyDict
    /\ user_vars = <<>>
    /\ vars_types = [x \in {} |-> STR]
    /\ device = NoDevice
    /\ nad \in {0, 1}
    /\ pc = "idle"
    /\ call = NoCall
    /\ req = NoReq
    /\ resp = NoResp
    /\ last = NoLast
    /\ plc = EmptyDict
    /\ pin = NoPure
    /\ pout = NoPure

\* the calls of a caller that uses the names, values and types given
Calls(names, vals, types) ==
    \/ \E full \in BOOLEAN, plc_nad \in {0, 1} : Update(full, plc_nad)
    \/ \E name \in names, t \in types : ReadVar(name, t)
    \/ \E name \in names, v \in vals, t \in types : WriteVar(name, v, t)
    \/ \E name \in names, t \in types : AddVar(name, t)
    \/ \E name \in names : RemoveVar(name)
    \/ \E name \in names : CybroAddVar(name)
    \/ \E name \in names : CybroRemoveVar(name)

\* the transport: an attempt fails with one of fails, or is answered
Transport(vals, stamps, partial, fails) ==
    \/ \E e \in fails : AttemptFails(e)
    \/ \E rs \in Replies(req, vals, stamps, partial) : Reply(rs) /\ UNCHANGED plc

\* a transport that never fails
Answers(vals, stamps, partial) ==
    \E rs \in Replies(req, vals, stamps, partial) : Reply(rs) /\ UNCHANGED plc

Name1 == Controller(1) \o <<"scan_time">>
Name2 == Controller(1) \o <<"scan_time_max">>
Name3 == Controller(1) \o <<"lc00_qx00">>

Version1 == <<"3.2.6">>
Version2 == <<"3.2.7">>

AllFailures == {"CybroConnectionTimeoutError", "CybroConnectionError", "CybroError"}

\* The registry: two names, two values, two types; the gateway answers a
\* server-scope request completely or not at all; attempts time out
Next ==
    \/ Calls({Name1, Name2}, {<<"1">>, <<"5">>}, {STR, INT})
    \/ Transport({<<"1">>, <<"5">>}, {Version1}, FALSE, {"CybroConnectionTimeoutError"})

Spec == Init /\ [][Next]_vars_all

\* The rebuild: one name, one value; the gateway answers a server-scope
\* request with one of two versions, completely, in part or not at all
NextRebuild ==
    \/ Calls({Name1}, {<<"1">>}, {STR})
    \/ Transport({<<"1">>}, {Version1, Version2}, TRUE, {"CybroConnectionTimeoutError"})

SpecRebuild == Init /\ [][NextRebuild]_vars_all

\* The watch set: three names, one value
NextWatch ==
    \/ Calls({Name1, Name2, Name3}, {<<"1">>}, {STR})
    \/ Answers({<<"1">>}, {Version1}, FALSE)

SpecWatch == Init /\ [][NextWatch]_vars_all

\* A gateway that echoes writes answers the outstanding request
EchoAnswers ==
    /\ Reply(EchoReply(req))
    /\ plc' = IF req.kind = "write" THEN DictSet(plc, req.names[1], req.value) ELSE plc

\* read_var of the name just written, with the type it was written with
ReadBack ==
    /\ call.op = "write_var"
    /\ last.st = "ok"
    /\ ReadVar(call.name, call.typ)

\* The round trip: against a gateway that echoes writes, a caller updates,
\* writes, and reads a name right after writing it
NextEcho ==
    \/ \E full \in BOOLEAN : Update(full, 0)
    \/ \E name \in {Name1, Name2}, v \in {<<"1">>, <<"5">>, <<"1", "5">>},
          t \in {STR, INT, FLOAT, BOOL} : WriteVar(name, v, t)
    \/ ReadBack
    \/ EchoAnswers

SpecEcho == Init /\ [][NextEcho]_vars_all

\* a controller-status name that a caller watches as well
StatusName == PlcName(1, "response_time")

\* The declared types: a caller declares types for a name of its own and for
\* a controller-status name, reads and updates; the gateway always answers
NextTypes ==
    \/ \E full \in BOOLEAN : Update(full, 0)
    \/ \E name \in {Name1, StatusName}, t \in {STR, INT} : AddVar(name, t)
    \/ \E name \in {Name1, StatusName}, t \in {STR, INT} : ReadVar(name, t)
    \/ Answers({<<"1">>}, {Version1}, FALSE)

SpecTypes == Init /\ [][NextTypes]_vars_all

\* the calls that issue requests, on one name
RetryCalls ==
    \/ \E full \in BOOLEAN : Update(full, 0)
    \/ ReadVar(Name1, STR)
    \/ ReadVarInt(Name1)
    \/ ReadVarFloat(Name1)
    \/ ReadVarBool(Name1)
    \/ WriteVar(Name1, <<"1">>, STR)

\* a transport whose attempts fail in every way Cybro.request raises
Unreliable == Transport({<<"1">>}, {Version1}, FALSE, AllFailures)

NextRetry ==
    \/ RetryCalls
    \/ Unreliable

\* The retries: every transport attempt ends, answered or failed, so a call
\* that waits is resumed
SpecRetry == Init /\ [][NextRetry]_vars_all /\ WF_vars_all(Unreliable)

-----------------------------------------------------------------------------
(* The functions of the library applied to given arguments: pin holds the *)
(* function's name and its arguments, pout its result.                    *)

\* a registry in which the names of us are watched as STR and hold "1"
RegOf(us) ==
    Reg([n \in Range(us) |-> Rec(n, <<"1">>, Desc)], us, [n \in Range(us) |-> STR])

\* the sequences of at most n of the names
RECURSIVE Orders(_, _)
Orders(names, n) ==
    IF n = 0 THEN {<<>>}
    ELSE LET shorter == Orders(names, n - 1)
         IN  shorter \cup {Append(q, x) : q \in {r \in shorter : Len(r) = n - 1},
                                           x \in names}

NoRepeat(q) == \A i, j \in DOMAIN q : i # j => q[i] # q[j]

\* the longest watch set handed to the chunker
MaxWatch == 4

ChunkNames == {Name1, Name2, Name3, ServerName("server_version")}

ChunkInputs ==
    {[f |-> "get_chunk", names |-> q, size |-> k] :
        q \in {r \in Orders(ChunkNames, MaxWatch) : NoRepeat(r)}, k \in 1..MaxBatchSize}

\* one record, its type, and the registry it arrives in
ParseInputs ==
    {[f |-> "parse", rec |-> Rec(n, v, d), typ |-> t, reg |-> RegOf(us)] :
        n \in {Name1, Name2}, v \in {<<"1">>, <<"5">>}, d \in {Desc, <<>>},
        t \in {STR, INT, FLOAT, BOOL}, us \in {<<>>, <<Name1>>, <<Name2, Name1>>}}

\* the responses a Device is constructed from: None, {}, {"var": None}, and
\* complete and incomplete lists of the server-scope variables
DeviceInputs ==
    {[f |-> "Device", data |-> d, plc_nad |-> n] :
        d \in {DataNone, DataDict({}, VarNone), DataDict({"var"}, VarNone)}
              \cup {Decode(Stamped(SysNames(k), Version1)) : k \in {0, 1}}
              \cup {Decode(Stamped(Without(SysNames(k), ServerName("server_version")),
                                   Version1)) : k \in {0, 1}},
        n \in {0, 1, 2}}

\* two responses, a name and a type: a first Device is constructed and a name
\* added to its watch set, then a second Device is constructed
DevicesInputs ==
    {[f |-> "Devices", first |-> Decode(Stamped(SysNames(n), v1)),
      second |-> Decode(Stamped(SysNames(n), v2)), plc_nad |-> n,
      name |-> x, typ |-> t] :
        v1 \in {Version1, Version2}, v2 \in {Version1, Version2}, n \in {0, 1},
        x \in {Name1, Name2}, t \in {STR, INT}}

InitPure ==
    /\ vars = EmptyDict
    /\ user_vars = <<>>
    /\ vars_types = [x \in {} |-> STR]
    /\ device = NoDevice
    /\ nad = 0
    /\ pc = "idle"
    /\ call = NoCall
    /\ req = NoReq
    /\ resp = NoResp
    /\ last = NoLast
    /\ plc = EmptyDict
    /\ pin \in ChunkInputs \cup ParseInputs \cup DeviceInputs \cup DevicesInputs
    /\ pout = NoPure

Applied(result) ==
    /\ pout = NoPure
    /\ pout' = result
    /\ UNCHANGED <<vars, user_vars, vars_types, device, nad, pc, call, req, resp, last,
                   plc, pin>>

\* _get_chunk(names, size)
ApplyGetChunk ==
    /\ pin.f = "get_chunk"
    /\ Applied([f |-> pin.f, chunks |-> get_chunk(pin.names, pin.size)])

\* update_user_var_from_dict and update_var, each handed the record as a
\* single-record response {"var": r} and as the list response {"var": [r]}
ApplyParse ==
    /\ pin.f = "parse"
    /\ Applied([f |-> pin.f,
                user_one |-> update_user_var_from_dict(pin.reg, DataDict({"var"}, VarRec(pin.rec))),
                user_list |-> update_user_var_from_dict(pin.reg, DataDict({"var"}, VarList(<<pin.rec>>))),
                var_one |-> update_var(pin.reg, DataDict({"var"}, VarRec(pin.rec)), pin.typ),
                var_list |-> update_var(pin.reg, DataDict({"var"}, VarList(<<pin.rec>>)), pin.typ)])

\* Device(data, plc_nad) in a fresh process
ApplyDevice ==
    /\ pin.f = "Device"
    /\ Applied([f |-> pin.f, out |-> Device_init(RegOf(<<>>), pin.data, pin.plc_nad)])

\* first = Device(data1, plc_nad); first.add_var(name, typ);
\* second = Device(data2, plc_nad) in a fresh process. vars, user_vars and
\* vars_types are attributes of the class: watched is what they hold when the
\* second Device is constructed, and after_first and after_second what they
\* hold afterwards, read through the first and through the second Device.
ApplyDevices ==
    /\ pin.f = "Devices"
    /\ LET first == Device_init(RegOf(<<>>), pin.first, pin.plc_nad)
           watched == add_var(first.reg, pin.name, pin.typ)
           second == Device_init(watched, pin.second, pin.plc_nad)
       IN  Applied([f |-> pin.f, err |-> IF first.err # "" THEN first.err ELSE second.err,
                    watched |-> watched,
                    after_first |-> second.reg, after_second |-> second.reg])

NextPure ==
    \/ ApplyGetChunk
    \/ ApplyParse
    \/ ApplyDevice
    \/ ApplyDevices

SpecPure == InitPure /\ [][NextPure]_vars_all

-----------------------------------------------------------------------------
(* ServerInfo, PlcInfo and parse_alc_file applied to given arguments *)

\* the value a mapping holds under the key k
InfoValue(k, v) == k \o <<"=">> \o v

\* the mapping of names to values, as from_dict takes it
InfoDict(names, v) == [k \in names |-> InfoValue(k, v)]

\* the same mapping with Var objects, as from_vars takes it
InfoVars(names, v) == [k \in names |-> Var_from_dict(Rec(k, InfoValue(k, v), Desc))]

\* the controller addresses tried
Nads == {1, 1000}

\* mappings for ServerInfo: every server-scope name, all but one, none
ServerInfoInputs ==
    {[f |-> "ServerInfo", names |-> ks, v |-> v] :
        ks \in {Range(ServerNames)} \cup {Range(ServerNames) \ {x} : x \in Range(ServerNames)}
               \cup {{}},
        v \in {Version1, Version2}}

\* mappings for PlcInfo of address nad: the status names of a controller k,
\* all but one of them, none, the keys from_dict looks up, and both
PlcInfoInputs ==
    {[f |-> "PlcInfo", nad |-> n, names |-> ks, v |-> Version1] :
        n \in Nads,
        ks \in UNION {{Range(PlcNames(k))}
                      \cup {Range(PlcNames(k)) \ {x} : x \in Range(PlcNames(k))}
                      \cup {{DictName(k, g) : g \in Range(PlcFields)}}
                      \cup {Range(PlcNames(k)) \cup {DictName(k, g) : g \in Range(PlcFields)}}
                      : k \in Nads}
               \cup {{}}}

Pad(n, c) == [i \in 1..n |-> c]

\* w in a column that is width characters wide
Field(w, width) == w \o Pad(width - Len(w), " ")

\* a data line: the address columns, the type column, the name and what follows
AlcLine(typ, name, rest) ==
    Field(<<"0", "0", "5", "0">>, TypCol) \o Field(typ, NameCol - TypCol) \o name \o rest

AlcHeader == <<";", "C", "P", "U", "\n", ";", "A", "d", "d", "r">>

AlcLines ==
    {AlcLine(<<"b", "i", "t">>, <<"q", "x", "0">>, <<" ", " ", "E", "r", "r", "o", "r", " ", "0", ".">>),
     AlcLine(<<"b", "i", "t">>, <<"q", "x", "0">>, <<>>),
     AlcLine(<<"i", "n", "t">>, <<"q", "x", "0">>, <<" ">>),
     AlcLine(<<"i", "n", "t">>, <<"i", "w">>, <<" ", "x">>),
     AlcLine(<<"b", "i", "t">>, <<"q">>, <<>>),
     <<"0", "0", "7", "0">>}

\* the text of the header lines and the data lines, each line after a "\n"
RECURSIVE AlcText(_)
AlcText(lines) ==
    IF lines = <<>> THEN AlcHeader
    ELSE AlcText(SubSeq(lines, 1, Len(lines) - 1)) \o <<"\n">> \o lines[Len(lines)]

\* the most data lines in an allocation text
MaxAlcLines == 2

\* allocation texts: None, the empty text, and a header with data lines, with
\* and without a final "\n"
AlcInputs ==
    {[f |-> "parse_alc_file", nad |-> n, alc |-> a] :
        n \in Nads,
        a \in {PyNone, <<>>, <<";", "C", "P", "U">>}
              \cup {AlcText(ls) \o e : ls \in Orders(AlcLines, MaxAlcLines),
                                      e \in {<<>>, <<"\n">>}}}

InitInfo ==
    /\ vars = EmptyDict
    /\ user_vars = <<>>
    /\ vars_types = [x \in {} |-> STR]
    /\ device = NoDevice
    /\ nad = 0
    /\ pc = "idle"
    /\ call = NoCall
    /\ req = NoReq
    /\ resp = NoResp
    /\ last = NoLast
    /\ plc = EmptyDict
    /\ pin \in ServerInfoInputs \cup PlcInfoInputs \cup AlcInputs
    /\ pout = NoPure

\* ServerInfo.from_dict(data) and ServerInfo.from_vars(variables)
ApplyServerInfo ==
    /\ pin.f = "ServerInfo"
    /\ Applied([f |-> pin.f,
                from_dict |-> ServerInfo_from_dict(InfoDict(pin.names, pin.v)),
                from_vars |-> ServerInfo_from_vars(InfoVars(pin.names, pin.v))])

\* PlcInfo.from_dict(data, plc_nad) and PlcInfo.from_vars(variables, plc_nad)
ApplyPlcInfo ==
    /\ pin.f = "PlcInfo"
    /\ Applied([f |-> pin.f,
                from_dict |-> PlcInfo_from_dict(InfoDict(pin.names, pin.v), pin.nad),
                from_vars |-> PlcInfo_from_vars(InfoVars(pin.names, pin.v), pin.nad)])

\* plc_info.alc_file = alc; plc_info.parse_alc_file() on a PlcInfo from_vars made
ApplyParseAlc ==
    /\ pin.f = "parse_alc_file"
    /\ LET made == PlcInfo_from_vars(InfoVars(Range(PlcNames(pin.nad)), Version1), pin.nad).info
       IN  Applied([f |-> pin.f,
                    out |-> parse_alc_file([made EXCEPT !.fields["alc_file"] = pin.alc])])

NextInfo ==
    \/ ApplyServerInfo
    \/ ApplyPlcInfo
    \/ ApplyParseAlc

SpecInfo == InitInfo /\ [][NextInfo]_vars_all

-----------------------------------------------------------------------------
(* Properties *)

\* the step hands a response to the handler of the call
IsReply == pc = "wait" /\ call'.replies = call.replies + 1

\* the records of a decoded response
Items(data) == IF data.var.t = "rec" THEN <<data.var.rec>> ELSE data.var.items

Reported(data, name) == \E i \in DOMAIN Items(data) : Items(data)[i].name = name

\* the value the response reports for a name it holds once
ValueIn(data, name) ==
    Items(data)[CHOOSE i \in DOMAIN Items(data) : Items(data)[i].name = name].value

\* dev holds the ServerInfo, and for address n the PlcInfo, of the response data
BuiltFrom(dev, data, n) ==
    /\ dev.t = "dev"
    /\ \A i \in DOMAIN ServerFields :
          /\ Reported(data, ServerNames[i])
          /\ dev.server_info[ServerFields[i]] = ValueIn(data, ServerNames[i])
    /\ n # 0 =>
          /\ dev.plc_info.t = "plc"
          /\ dev.plc_info.nad = n
          /\ \A i \in DOMAIN PlcFields :
                /\ Reported(data, PlcNames(n)[i])
                /\ dev.plc_info.fields[PlcFields[i]] = ValueIn(data, PlcNames(n)[i])

C1_Step ==
    /\ (pc = "idle" /\ pc' = "wait" /\ call'.op = "update"
            /\ (device = NoDevice \/ call'.full))
        => /\ req' = SysReq(nad')
           /\ Len(req'.names) = 14 + (IF nad' # 0 THEN 7 ELSE 0)
    /\ (req'.kind = "user" /\ call'.branch = "full" /\ req.kind # "user")
        => (IsReply /\ req.kind = "sys")
    /\ (IsReply /\ req.kind = "sys"
            /\ (req'.kind = "user" \/ (pc' = "idle" /\ last'.st = "ok")))
        => BuiltFrom(device', resp', nad)
    /\ (pc = "idle" /\ pc' = "wait" /\ call'.op = "update"
            /\ device # NoDevice /\ ~call'.full)
        => req'.kind = "user"
    /\ (call'.op = "update" /\ call'.branch = "user") => req'.kind # "sys"

\* C1: an update of a session without device, or a full update, first issues
\* the one request for the 14 server-scope names (and the 7 controller names
\* when nad is not 0); the request for the watched names follows only when
\* that one is answered; on success the session's device holds the ServerInfo
\* and PlcInfo of that response; an update that is not full, of a session with
\* a device, issues no server-scope request.
C1_FullUpdateRebuilds == [][C1_Step]_vars_all

\* C2: every request for watched names is one chunk of the watch set: it
\* carries at most MaxBatchSize names, in insertion order.
C2_RequestsAreChunks ==
    req.kind = "user" =>
        /\ Len(req.names) <= MaxBatchSize
        /\ \E i \in DOMAIN get_chunk(user_vars, MaxBatchSize) :
              req.names = get_chunk(user_vars, MaxBatchSize)[i]

RECURSIVE Flatten(_)
Flatten(ss) == IF ss = <<>> THEN <<>> ELSE ss[1] \o Flatten(Tail(ss))

\* C3: the chunks of a name sequence, concatenated in order, are the sequence;
\* each chunk has between 1 and size names and every chunk but the last has
\* size names; names that fit one chunk give that one chunk, no names give no
\* chunk.
C3_ChunksPartition ==
    pout.f = "get_chunk" =>
        /\ Flatten(pout.chunks) = pin.names
        /\ \A i \in DOMAIN pout.chunks : Len(pout.chunks[i]) \in 1..pin.size
        /\ \A i \in DOMAIN pout.chunks :
              i < Len(pout.chunks) => Len(pout.chunks[i]) = pin.size
        /\ (pin.names # <<>> /\ Len(pin.names) <= pin.size) => pout.chunks = <<pin.names>>
        /\ pin.names = <<>> => pout.chunks = <<>>

C3_Witness ==
    /\ pout.f = "get_chunk"
    /\ Len(pin.names) = 3
    /\ pin.size = 2
    /\ pout.chunks = <<SubSeq(pin.names, 1, 2), SubSeq(pin.names, 3, 3)>>

\* C4: a record handed over as the single-record response and as the
\* one-element list response is taken by update_user_var_from_dict and by
\* update_var without error, and leaves the same registry, which holds the
\* record's Var under its name.
C4_ParsingIdempotent ==
    pout.f = "parse" =>
        /\ pout.user_one.err = "" /\ pout.user_list.err = ""
        /\ pout.user_one.reg = pout.user_list.reg
        /\ pout.user_one.reg.vars[pin.rec.name] = Var_from_dict(pin.rec)
        /\ pout.var_one.err = "" /\ pout.var_list.err = ""
        /\ pout.var_one.reg = pout.var_list.reg
        /\ pout.var_one.reg.vars[pin.rec.name] = Var_from_dict(pin.rec)

\* C5: Device(data) of a response that is None, that has no "var" or whose
\* "var" is None raises CybroError and makes no Device.
C5_IncompleteResponse ==
    (pout.f = "Device"
        /\ pin.data \in {DataNone, DataDict({}, VarNone), DataDict({"var"}, VarNone)})
    => (pout.out.err = "CybroError" /\ pout.out.dev = NoDevice)

\* C6: after a read_var that returned, the name read is watched, has the type
\* asked for, and vars holds the Var the gateway reported for it; the next
\* update asks the gateway for it.
C6_ReadThenWatch ==
    (pc = "idle" /\ call.op = "read_var" /\ last.st = "ok") =>
        /\ call.name \in Range(user_vars)
        /\ call.name \in DOMAIN vars_types /\ vars_types[call.name] = call.typ
        /\ resp.var.t = "rec" /\ resp.var.rec.name = call.name
        /\ call.name \in DOMAIN vars /\ vars[call.name] = Var_from_dict(resp.var.rec)
        /\ UpdateBody(device, nad, reg, FALSE).req.kind = "user"
        /\ call.name \in Range(UpdateBody(device, nad, reg, FALSE).req.names)

C6_Witness ==
    /\ pc = "idle" /\ call.op = "read_var" /\ last.st = "ok"
    /\ ~call.was_watched
    /\ call.typ = INT
    /\ call.name \in Range(user_vars)

\* C7 as claimed: whenever read_var is handed an empty response it fails with
\* CybroEmptyResponseError and leaves the registry as it was.
C7_EmptyAlwaysFails ==
    [][(IsReply /\ req.kind = "read" /\ resp' = DataNone)
        => (pc' = "idle" /\ last' = Raise("CybroEmptyResponseError")
            /\ UNCHANGED <<vars, user_vars, vars_types>>)]_vars_all

\* C7: read_var that is handed an empty response leaves the registry as it
\* was and issues its request again, until the response of its third try is
\* empty too: then it fails with CybroEmptyResponseError; it fails with that
\* error in no other case.
C7_EmptyFailsAfterRetries ==
    [][/\ (IsReply /\ req.kind = "read" /\ resp' = DataNone)
          => /\ UNCHANGED <<vars, user_vars, vars_types>>
             /\ IF call.tries = CallMaxTries
                THEN pc' = "idle" /\ last' = Raise("CybroEmptyResponseError")
                ELSE /\ pc' = "wait" /\ req' = ReadReq(call.name)
                     /\ call'.tries = call.tries + 1
       /\ (call.op = "read_var" /\ pc = "wait" /\ pc' = "idle"
              /\ last'.err = "CybroEmptyResponseError")
          => (IsReply /\ resp' = DataNone /\ call.tries = CallMaxTries)
      ]_vars_all

C7_Witness ==
    /\ pc = "idle" /\ call.op = "read_var"
    /\ last = Raise("CybroEmptyResponseError")
    /\ call.replies = CallMaxTries
    /\ user_vars # <<>>

\* C8: after a write_var that returned, vars holds under the written name the
\* value the gateway reported, and that value is what the call returned.
C8_WriteStoresReported ==
    (pc = "idle" /\ call.op = "write_var" /\ last.st = "ok") =>
        /\ resp.var.t = "rec" /\ resp.var.rec.name = call.name
        /\ call.name \in DOMAIN vars
        /\ vars[call.name].value = resp.var.rec.value
        /\ last.ret = RetStr(resp.var.rec.value)

C8_Witness ==
    /\ pc = "idle" /\ call.op = "write_var" /\ last.st = "ok"
    /\ resp.var.rec.value # call.value
    /\ vars[call.name].value # call.value

\* C9: write_var(name, "5", INT) and then read_var(name, INT) against a
\* gateway that echoes writes returns the integer 5.
C9_RoundTrip ==
    (pc = "idle" /\ call.op = "read_var" /\ last.st = "ok" /\ call.typ = INT
        /\ Held(call.name) = <<"5">>)
    => last.ret = value_int(vars[call.name]).ret

\* C10: add_var puts the name into the watch set with its type, leaves vars
\* alone and issues no request, and calling it again with the same name and
\* type changes nothing.
C10_AddVar ==
    [][(pc = "idle" /\ call'.op \in {"add_var", "Cybro.add_var"} /\ last'.st = "ok")
        => /\ call'.name \in Range(user_vars')
           /\ vars_types'[call'.name] = call'.typ
           /\ vars' = vars
           /\ pc' = "idle" /\ req' = NoReq
           /\ add_var(Reg(vars', user_vars', vars_types'), call'.name, call'.typ)
                 = Reg(vars', user_vars', vars_types')
           /\ (call.op = call'.op /\ call.name = call'.name /\ call.typ = call'.typ
                  /\ last.st = "ok")
              => UNCHANGED <<vars, user_vars, vars_types>>
      ]_vars_all

C10_Witness ==
    /\ pc = "idle" /\ call.op = "add_var" /\ last.st = "ok"
    /\ call.was_watched
    /\ call.typ = INT
    /\ Len(user_vars) = 2 /\ user_vars[1] = call.name

\* C11: remove_var of a name that is not watched raises the typed error
\* UnknownVariable and leaves user_vars, vars_types and vars as they were.
C11_RemoveUnwatched ==
    [][(pc = "idle" /\ call'.op = "remove_var" /\ call'.name \notin Range(user_vars))
        => (last' = Raise("UnknownVariable")
            /\ UNCHANGED <<vars, user_vars, vars_types>>)]_vars_all

\* C12: remove_var of a watched name takes that name, and no other, out of
\* user_vars and vars_types, keeps the order and the types of the others,
\* leaves vars alone and issues no request; the request of the next update
\* that is not full does not hold the name.
C12_RemoveWatched ==
    [][(pc = "idle" /\ call'.op \in {"remove_var", "Cybro.remove_var"}
            /\ device # NoDevice /\ call'.name \in Range(user_vars))
        => LET n == call'.name
           IN  /\ last' = Ok(RetNone)
               /\ user_vars' = SelectSeq(user_vars, LAMBDA m : m # n)
               /\ DOMAIN vars_types' = DOMAIN vars_types \ {n}
               /\ \A m \in DOMAIN vars_types' : vars_types'[m] = vars_types[m]
               /\ vars' = vars
               /\ pc' = "idle" /\ req' = NoReq
               /\ n \notin Range(UpdateBody(device', nad',
                                            Reg(vars', user_vars', vars_types'),
                                            FALSE).req.names)
      ]_vars_all

C12_Witness ==
    /\ pc = "idle" /\ call.op = "remove_var" /\ last = Ok(RetNone)
    /\ call.was_watched
    /\ call.name \in DOMAIN vars
    /\ call.name \notin Range(user_vars)
    /\ Len(user_vars) = 1

C13_Typed == \A n \in Range(user_vars) : n \in DOMAIN vars_types

C13_Step ==
    /\ DOMAIN vars \subseteq DOMAIN vars'
    /\ (IsReply /\ pc' = "idle" /\ last'.st = "ok"
            /\ call'.op \in {"read_var", "write_var"})
        => call'.name \in DOMAIN vars'
    /\ (IsReply /\ req.kind = "user" /\ pc' = "idle" /\ last'.st = "ok")
        => \A i \in DOMAIN Items(resp') : Items(resp')[i].name \in DOMAIN vars'

\* C13: in every state, whatever calls were made and whether they returned or
\* raised, every watched name has an entry in vars_types; a name that a
\* read_var, write_var or update has read has an entry in vars, and vars
\* never loses an entry.
C13_RegistryInvariant == []C13_Typed /\ [][C13_Step]_vars_all

C13_Witness ==
    /\ pc = "idle" /\ last.st = "raise"
    /\ Len(user_vars) = 2
    /\ user_vars[1] \in DOMAIN vars
    /\ user_vars[2] \notin DOMAIN vars
    /\ C13_Typed

\* the mapping of the input lacks one of the names
Lacks(names) == \E i \in DOMAIN names : names[i] \notin pin.names

\* C14: ServerInfo.from_vars and ServerInfo.from_dict of a mapping that lacks
\* a server-scope name raise CybroError.
C14_ServerInfoIncomplete ==
    (pout.f = "ServerInfo" /\ Lacks(ServerNames))
    => (pout.from_vars.err = "CybroError" /\ pout.from_dict.err = "CybroError")

\* C15: PlcInfo.from_vars and PlcInfo.from_dict for address n of a mapping
\* that lacks one of the names "c<n>.sys.*" raise CybroPlcNotFoundError and
\* return no PlcInfo.
C15_PlcInfoIncomplete ==
    (pout.f = "PlcInfo" /\ Lacks(PlcNames(pin.nad)))
    => /\ pout.from_vars = [err |-> "CybroPlcNotFoundError", info |-> NoPlcInfo]
       /\ pout.from_dict = [err |-> "CybroPlcNotFoundError", info |-> NoPlcInfo]

\* the PlcInfo holds the address n and, in the fields named, the values the
\* mapping holds under "c<n>.sys.<field>"
Mapped(info, n) ==
    /\ info.t = "plc" /\ info.nad = n
    /\ \A g \in {"ip_port", "timestamp", "response_time", "bytes_transferred"} :
          info.fields[g] = InfoValue(PlcName(n, g), pin.v)

\* C16: PlcInfo.from_dict and PlcInfo.from_vars for address n of a mapping
\* that holds every name "c<n>.sys.*" both return a PlcInfo with that address
\* and the mapped ip_port, timestamp, response_time and bytes_transferred.
C16_PlcInfoAgree ==
    (pout.f = "PlcInfo" /\ ~Lacks(PlcNames(pin.nad)))
    => /\ pout.from_vars.err = "" /\ Mapped(pout.from_vars.info, pin.nad)
       /\ pout.from_dict.err = "" /\ Mapped(pout.from_dict.info, pin.nad)

\* C20: parse_alc_file of a PlcInfo whose alc_file is None returns the empty
\* catalog and sets plc_vars to it.
C20_ParseAlcNone ==
    (pout.f = "parse_alc_file" /\ pin.alc = PyNone)
    => /\ pout.out.err = ""
       /\ pout.out.ret = EmptyDict
       /\ pout.out.info.plc_vars = EmptyDict

\* the step is a transport attempt that failed: no response reached the call
IsFailure == pc = "wait" /\ call' = call

C17_Step ==
    /\ req'.attempt <= 3
    /\ (IsFailure /\ req.attempt < 3)
        => /\ pc' = "wait" /\ req' = [req EXCEPT !.attempt = @ + 1]
           /\ UNCHANGED <<vars, user_vars, vars_types, device>>
    /\ (IsFailure /\ req.attempt >= 3)
        => /\ pc' = "idle" /\ last' = Raise("CybroConnectionTimeoutError")
           /\ UNCHANGED <<vars, user_vars, vars_types, device>>
    /\ (pc = "wait" /\ pc' = "idle" /\ last'.err = "CybroConnectionTimeoutError")
        => (IsFailure /\ req.attempt = 3)

\* C17: a request whose attempt times out is attempted again until its third
\* attempt; when the third times out too, the call that issued it (update,
\* read_var, write_var) ends with CybroConnectionTimeoutError: there is no
\* fourth attempt, and the timeout reaches the caller only then.
C17_RetryBound == [][C17_Step]_vars_all

C17_Witness ==
    /\ pc = "idle" /\ call.op = "update" /\ call.replies = 0
    /\ last = Raise("CybroConnectionTimeoutError")

\* a name of names that the response does not report and vars does not hold
Missing(data, names) ==
    \E i \in DOMAIN names : names[i] \notin DOMAIN vars /\ ~Reported(data, names[i])

C18_Step ==
    /\ (IsReply /\ req.kind = "sys" /\ Truthy(resp') /\ resp'.var.t = "list"
            /\ Missing(resp', SysNames(nad)))
        => /\ pc' = "idle" /\ req' = NoReq
           /\ last'.st = "raise"
           /\ call'.tries = call.tries
           /\ (~Missing(resp', ServerNames) => last'.err = "CybroPlcNotFoundError")
    /\ (pc = "idle" /\ call'.op \in {"remove_var", "Cybro.remove_var"}
            /\ last'.st = "raise")
        => (pc' = "idle" /\ req' = NoReq)

\* C18: an update whose server-scope response leaves the ServerInfo or the
\* PlcInfo incomplete ends in that step with the error, CybroPlcNotFoundError
\* for a missing controller name: it is not run again and issues no further
\* request; a remove_var that fails issues no request.
C18_NotRetried == [][C18_Step]_vars_all

C18_Witness ==
    /\ pc = "idle" /\ call.op = "update" /\ call.replies = 1 /\ call.tries = 1
    /\ last = Raise("CybroPlcNotFoundError")
    /\ req = NoReq

\* C19 as claimed: a read_var or update that is handed an empty response ends
\* with CybroEmptyResponseError in its first run, without another request.
C19_EmptyNotRetried ==
    [][(IsReply /\ resp' = DataNone /\ call.op \in {"read_var", "update"})
        => (pc' = "idle" /\ req' = NoReq /\ call'.tries = 1
            /\ last' = Raise("CybroEmptyResponseError"))]_vars_all

C19_Step ==
    /\ call'.tries <= 3
    /\ (IsReply /\ resp' = DataNone /\ call.op \in {"read_var", "update"})
        => IF call.tries < 3
           THEN /\ pc' = "wait" /\ call'.tries = call.tries + 1
                /\ req'.attempt = 1
                /\ req'.kind = IF call.op = "read_var" THEN "read"
                               ELSE IF call.full THEN "sys" ELSE req.kind
           ELSE pc' = "idle" /\ last' = Raise("CybroEmptyResponseError")
    /\ (pc = "wait" /\ pc' = "idle" /\ last'.err = "CybroEmptyResponseError")
        => (IsReply /\ resp' = DataNone /\ call.tries = 3)

\* C19: a read_var or update that is handed an empty response runs again, from
\* its first request, up to three runs; CybroEmptyResponseError reaches the
\* caller when the third run is handed an empty response, and only then.
C19_EmptyRetried == [][C19_Step]_vars_all

C19_Witness ==
    /\ pc = "idle" /\ call.op = "update" /\ call.tries = 3
    /\ last = Raise("CybroEmptyResponseError")
    /\ call.replies > 3

\* a fixed-column data line: its name starts at the name column
DataLine(line) == Len(line) > NameCol /\ line[NameCol + 1] \notin Whitespace

\* the catalog the data lines declare: the complete first word from the name
\* column on, under the prefix, mapped to the trimmed type column
RECURSIVE Declared(_, _)
Declared(lines, prefix) ==
    IF lines = <<>> THEN EmptyDict
    ELSE LET line == lines[Len(lines)]
         IN  DictSet(Declared(SubSeq(lines, 1, Len(lines) - 1), prefix),
                     prefix \o Token(SubSeq(line, NameCol + 1, Len(line))),
                     rstrip(SubSeq(line, TypCol + 1, NameCol)))

\* the lines of the allocation text after the header
DataLines(alc) == SubSeq(splitlines(alc), AlcHeaderLines + 1, Len(splitlines(alc)))

\* C21: parse_alc_file skips the two header lines and maps, for every data
\* line, the prefix and the complete first word from the name column on to the
\* trimmed type column, also when the name is the last text on the line; the
\* returned catalog is plc_vars.
C21_ParseAlcCatalog ==
    (/\ pout.f = "parse_alc_file"
     /\ pin.alc # PyNone
     /\ \A i \in DOMAIN DataLines(pin.alc) : DataLine(DataLines(pin.alc)[i]))
    => /\ pout.out.err = ""
       /\ pout.out.ret = Declared(DataLines(pin.alc), Controller(pin.nad))
       /\ pout.out.info.plc_vars = pout.out.ret

C23_Step ==
    (/\ IsReply /\ req.kind = "sys" /\ nad # 0
     /\ Truthy(resp') /\ resp'.var.t = "list"
     /\ \A i \in DOMAIN ServerNames : Reported(resp', ServerNames[i])
     /\ \E i \in DOMAIN PlcNames(nad) : ~Reported(resp', PlcNames(nad)[i]))
    => /\ pc' = "idle"
       /\ last' = Raise("CybroPlcNotFoundError")

\* C23: a server-scope update of a session with controller address n fails
\* with CybroPlcNotFoundError whenever its response lacks one of the required
\* "c<n>.sys." names, whatever earlier updates have left in the registry.
C23_StaleNeverMasks == [][C23_Step]_vars_all

\* every record of the response is stored in the registry vs
Merged(data, vs) ==
    \A i \in DOMAIN Items(data) :
        /\ Items(data)[i].name \in DOMAIN vs
        /\ vs[Items(data)[i].name].value = ValueIn(data, Items(data)[i].name)

C24_Step ==
    /\ pc' = "wait" <=> req' # NoReq
    /\ (pc = "wait" /\ pc' = "wait" /\ ~IsReply)
        => /\ req' \in {req, [req EXCEPT !.attempt = @ + 1]}
           /\ UNCHANGED <<vars, user_vars, vars_types, device>>
    /\ (req'.kind = "user" /\ call'.branch = "full" /\ req.kind # "user")
        => /\ IsReply /\ req.kind = "sys"
           /\ device'.t = "dev"
           /\ Merged(resp', vars')
    /\ (IsReply /\ req.kind = "user" /\ last'.st = "ok")
        => /\ Merged(resp', vars')
           /\ call.branch = "full" => (call.replies >= 1 /\ device.t = "dev")

\* C24: within one update at most one request is outstanding: a call that
\* waits has exactly one request, which is attempted again after an attempt
\* that failed and replaced by the next request of the call only in the step
\* that handles its answer; the request for the
\* watched names of a full update is issued only in the step that stores the
\* server-scope response and constructs the device, and the response for the
\* watched names is stored after that.
C24_Sequential == [][C24_Step]_vars_all

C24_Witness ==
    /\ pc = "idle" /\ call.op = "update" /\ call.branch = "full"
    /\ call.replies = 2 /\ call.tries = 1 /\ last.st = "ok"
    /\ Len(user_vars) = 2

C25_Step ==
    (/\ pc = "idle" /\ call'.op = "update" /\ ~call'.full
     /\ device # NoDevice /\ user_vars = <<>>)
    => /\ pc' = "idle" /\ req' = NoReq
       /\ last' = Ok(RetNone)
       /\ UNCHANGED <<vars, user_vars, vars_types, device, nad>>

\* C25: an update that is not full, of a session that has a device and watches
\* no name, issues no request and returns the device it had: vars, user_vars,
\* vars_types and the device with its server_info and plc_info are unchanged.
C25_NoOpUpdate == [][C25_Step]_vars_all

C25_Witness ==
    /\ pc = "idle" /\ call.op = "update" /\ ~call.full /\ call.branch = "user"
    /\ call.replies = 0 /\ last = Ok(RetNone)
    /\ device.t = "dev" /\ user_vars = <<>> /\ DOMAIN vars # {}

\* the last record the response holds for the name
LastItem(data, name) ==
    Items(data)[CHOOSE i \in DOMAIN Items(data) :
                    /\ Items(data)[i].name = name
                    /\ \A j \in DOMAIN Items(data) : j > i => Items(data)[j].name # name]

C26_Step ==
    (IsReply /\ req.kind = "user" /\ Truthy(resp'))
    => /\ \A i \in DOMAIN Items(resp') : Items(resp')[i].name \in DOMAIN vars'
       /\ \A n \in DOMAIN vars' :
             IF Reported(resp', n)
             THEN vars'[n] = Var_from_dict(LastItem(resp', n))
             ELSE n \in DOMAIN vars /\ vars'[n] = vars[n]

\* C26: when update has merged a response for the watched names, vars holds,
\* for every name of the response, the Variable the response reports for it
\* (the last one when the name occurs twice), and is unchanged for every other
\* name, for a response of one record as for one of several.
C26_MergeByName == [][C26_Step]_vars_all

C27_Step ==
    \A n \in DOMAIN vars' :
        IF IsReply /\ Truthy(resp') /\ Reported(resp', n)
        THEN vars'[n].value = LastItem(resp', n).value
        ELSE n \in DOMAIN vars => vars'[n].value = vars[n].value

\* C27: the value of a stored Variable is always the string the gateway last
\* reported for its name: a step that handles a response reporting the name
\* stores that string, and no other step changes the value.
C27_RawValue == [][C27_Step]_vars_all

C28_Step ==
    /\ call'.op = "update" => user_vars' = user_vars
    /\ (IsReply /\ req.kind = "sys" /\ call.full /\ Truthy(resp') /\ last'.st # "raise")
        => IF user_vars = <<>> THEN pc' = "idle"
           ELSE pc' = "wait" /\ req'.kind = "user" /\ req'.names = user_vars

\* C28: the watch set survives a full rebuild: no step of an update changes
\* user_vars, its names or their order, and a full update whose server-scope
\* request succeeded goes on, in the same call, to request exactly the watched
\* names.
C28_WatchSetSurvives == [][C28_Step]_vars_all

C28_Witness ==
    /\ pc = "idle" /\ call.op = "update" /\ call.full
    /\ call.replies = 2 /\ last.st = "ok"
    /\ user_vars = <<Name2, Name1>>

\* C29: the registries of distinct Devices are isolated: constructing a second
\* Device leaves the vars, user_vars and vars_types read through the first as
\* they were, and the second Device starts with an empty watch set.
C29_Isolated ==
    (pout.f = "Devices" /\ pout.err = "")
    => /\ pout.after_first = pout.watched
       /\ pout.after_second.user_vars = <<>>

\* the most transport attempts a call of the operation makes: max_tries of
\* request for each request, max_tries runs of a decorated body, two requests
\* in a run of update, max_tries runs of read_var under a typed read
MaxAttempts(op) ==
    CASE op = "update" -> RequestMaxTries * CallMaxTries * 2
      [] op = "read_var" -> RequestMaxTries * CallMaxTries
      [] op = "write_var" -> RequestMaxTries
      [] op \in {"read_var_int", "read_var_float", "read_var_bool"} ->
            RequestMaxTries * CallMaxTries * CallMaxTries
      [] OTHER -> 0

C30_Bounded ==
    /\ req.attempt <= RequestMaxTries
    /\ call.tries <= CallMaxTries
    /\ call.outer <= CallMaxTries
    /\ RequestMaxTries * call.replies + req.attempt <= MaxAttempts(call.op)

\* C30: every update, read_var, read_var_int, read_var_float, read_var_bool and
\* write_var ends, whatever mix of timeouts, connection failures, protocol
\* errors and empty responses the transport produces: a request is attempted
\* at most three times, a decorated body run at most three times, read_var
\* called at most three times by a typed read, so the attempts of a call stay
\* within MaxAttempts of its operation, and a call that waits returns or raises.
C30_Terminates == []C30_Bounded /\ (pc = "wait" ~> pc = "idle")

C30_Witness ==
    /\ pc = "idle" /\ call.op = "read_var_int"
    /\ call.replies = CallMaxTries * CallMaxTries
    /\ last = Raise("CybroEmptyResponseError")

C31_Step ==
    call'.op = "update"
    => \A n \in Range(user_vars) :
          /\ n \in DOMAIN vars_types'
          /\ n \in DOMAIN vars_types => vars_types'[n] = vars_types[n]

\* C31: no step of an update, full or not, changes the type declared for a
\* watched name, also when the name is one of the server-scope or
\* controller-status names.
C31_TypesPreserved == [][C31_Step]_vars_all

C32_Step ==
    (/\ IsReply /\ req.kind = "sys" /\ (device = NoDevice \/ call.full)
     /\ pc' = "idle" /\ last'.st = "raise")
    => /\ UNCHANGED <<device, vars, user_vars, vars_types>>
       /\ device = NoDevice => UpdateBody(device', nad', reg, FALSE).branch = "full"

\* C32: a full update that fails on its server-scope response, be it empty,
\* without a server name or without a controller name, leaves the session as
\* it was: the device with its server_info and plc_info, vars, user_vars and
\* vars_types are unchanged, and a session without device has none, so that
\* its next update is a full one again.
C32_FailedUpdateAtomic == [][C32_Step]_vars_all

C33_Step ==
    /\ (pc = "idle" /\ device = NoDevice
            /\ call'.op \in {"Cybro.add_var", "Cybro.remove_var"})
        => last'.err # "AttributeError"
    /\ (IsReply /\ device = NoDevice /\ call.op \in {"read_var", "write_var"}
            /\ Truthy(resp'))
        => last'.err # "AttributeError"

\* C33: on a session that has no device yet, add_var and remove_var of the
\* session, and a read_var or write_var that the gateway answered, do not fail
\* for lack of a device.
C33_FreshSessionUsable == [][C33_Step]_vars_all

====
